---- MODULE Spec2Model ----
(***************************************************************************)
(* Teddy engine selection (src/src/fdr/teddy_engine_description.cpp).      *)
(*                                                                         *)
(* The model follows chooseTeddyEngine through its loop over the engine    *)
(* catalog, with the static helpers isAllowed and maxFloodTailLen and the  *)
(* public needConfirm and getTeddyDescription computed the way the code    *)
(* computes them.  The catalog, the target and the literal vector are the  *)
(* inputs; they are drawn from bounded sets in Init.                       *)
(***************************************************************************)
EXTENDS Integers, Sequences, FiniteSets, TLC

VARIABLES
    descs,           \* the catalog filled in by getTeddyDescriptions(&descs)
    target,          \* target_t: the set of cpu features the target offers
    vl,              \* vector<hwlmLiteral>: the literals, in order
    pc,              \* position in chooseTeddyEngine: "start", "loop", "done"
    max_lit_len,     \* chooseTeddyEngine's local max_lit_len
    max_flood_tail,  \* chooseTeddyEngine's local max_flood_tail
    engineID,        \* loop counter of chooseTeddyEngine (0-based, as in the code)
    best,            \* 0 for nullptr, else the 1-based catalog position of *best
    best_score,      \* chooseTeddyEngine's local best_score
    allowed,         \* what isAllowed returned for the engine last examined
    score,           \* the score computed for the engine last examined
    chosen,          \* result of chooseTeddyEngine: NullEngine or a descriptor
    call             \* the last public call made after selection, with its result

vars == <<descs, target, vl, pc, max_lit_len, max_flood_tail, engineID, best,
          best_score, allowed, score, chosen, call>>

-----------------------------------------------------------------------------
(* Bounds of the model. *)

\* longest catalog drawn in Init
MaxCatalog == 2

\* longest literal vector drawn freely (in every order) from SmallLits
MaxLits == 2

-----------------------------------------------------------------------------
(* Values. *)

\* a unique_ptr<TeddyEngineDescription> is a sequence: empty for nullptr, else
\* the one descriptor it owns
NullPtr == << >>

\* make_unique<TeddyEngineDescription>(eng): a copy of eng
MakeUnique(eng) == <<eng>>

\* the call variable before any public call
NoCall == [name |-> "none", arg |-> 0, ret |-> FALSE]

Max(a, b) == IF a > b THEN a ELSE b

\* abs() of <cmath> on int
Abs(x) == IF x < 0 THEN 0 - x ELSE x

RECURSIVE Rep(_, _)
\* n copies of x, as a sequence
Rep(n, x) == IF n = 0 THEN << >> ELSE <<x>> \o Rep(n - 1, x)

\* hwlmLiteral: the string s and the mask msk (empty when the literal is exact)
Lit(s, msk) == [s |-> s, msk |-> msk]

\* TeddyEngineDef as held by TeddyEngineDescription
Engine(id, features, numBuckets, numMasks, packed) ==
    [id |-> id, cpu_features |-> features, numBuckets |-> numBuckets,
     numMasks |-> numMasks, packed |-> packed]

-----------------------------------------------------------------------------
(* Code of the repository that src/ does not hold, modelled from the spec. *)

\* TEDDY_BUCKET_LOAD, the BUCKET_LOAD_FACTOR of the spec: literals per bucket
TEDDY_BUCKET_LOAD == 6

\* EngineDescription::isValidOnTarget: the features the engine requires are
\* among those the target offers
isValidOnTarget(eng, tgt) == eng.cpu_features \subseteq tgt

RECURSIVE maxLenFrom(_, _, _)
maxLenFrom(v, i, m) ==
    IF i > Len(v) THEN m ELSE maxLenFrom(v, i + 1, Max(m, Len(v[i].s)))

\* maxLen(vl): the length of the longest literal, 0 for no literals
maxLen(v) == maxLenFrom(v, 1, 0)

-----------------------------------------------------------------------------
(* TeddyEngineDescription *)

RECURSIVE needConfirmLitsGeq(_, _, _)
\* needConfirmLits with the length test written >= instead of >
needConfirmLitsGeq(eng, lits, i) ==
    IF i > Len(lits) THEN FALSE
    ELSE IF Len(lits[i].s) >= eng.numMasks \/ lits[i].msk # << >> THEN TRUE
    ELSE needConfirmLitsGeq(eng, lits, i + 1)

RECURSIVE needConfirmLits(_, _, _)
\* the for loop of needConfirm over lits, from position i on
needConfirmLits(eng, lits, i) ==
    IF i > Len(lits) THEN FALSE
    ELSE IF Len(lits[i].s) > eng.numMasks \/ lits[i].msk # << >> THEN TRUE
    ELSE needConfirmLits(eng, lits, i + 1)

needConfirm(eng, lits) ==
    IF eng.packed \/ Len(lits) > eng.numBuckets THEN TRUE
    ELSE needConfirmLits(eng, lits, 1)

-----------------------------------------------------------------------------
(* maxFloodTailLen *)

RECURSIVE floodScan(_, _)
\* the inner for loop: j runs from its current value while j < s.length() and
\* s[s.length() - j - 1] == s[s.length() - 1]  (0-based; s[k] is s[k + 1] here)
floodScan(s, j) ==
    IF j < Len(s) /\ s[Len(s) - j] = s[Len(s)] THEN floodScan(s, j + 1) ELSE j

\* the value of j after the inner loop, which starts at j = 1
floodTail(s) == floodScan(s, 1)

RECURSIVE maxFloodTailFromLast(_, _, _)
\* maxFloodTailFrom keeping the last literal's tail instead of the maximum
maxFloodTailFromLast(v, i, m) ==
    IF i > Len(v) THEN m
    ELSE maxFloodTailFromLast(v, i + 1, floodTail(v[i].s))

RECURSIVE maxFloodTailFrom(_, _, _)
maxFloodTailFrom(v, i, m) ==
    IF i > Len(v) THEN m
    ELSE maxFloodTailFrom(v, i + 1, Max(m, floodTail(v[i].s)))

maxFloodTailLen(v) == maxFloodTailFrom(v, 1, 0)

-----------------------------------------------------------------------------
(* isAllowed *)

RECURSIVE countSmallLitsLeq(_, _, _, _)
\* countSmallLits with the length test written <= instead of <
countSmallLitsLeq(v, eng, i, n) ==
    IF i > Len(v) THEN n
    ELSE countSmallLitsLeq(v, eng, i + 1,
                           IF Len(v[i].s) <= eng.numMasks THEN n + 1 ELSE n)

RECURSIVE countSmallLits(_, _, _, _)
\* the loop counting n_small_lits
countSmallLits(v, eng, i, n) ==
    IF i > Len(v) THEN n
    ELSE countSmallLits(v, eng, i + 1,
                        IF Len(v[i].s) < eng.numMasks THEN n + 1 ELSE n)

\* tooManySmall with the test written >= instead of >
tooManySmallGeq(n_small_lits, size) == n_small_lits * 5 >= size

\* the test that ends the flood-proneness block
tooManySmall(n_small_lits, size) == n_small_lits * 5 > size

\* moreMasksThanLen off by one
moreMasksThanLenOffByOne(eng, mll) == eng.numMasks > mll + 1

\* the test on the longest literal
moreMasksThanLen(eng, mll) == eng.numMasks > mll

\* isAllowed without the test of the bucket load
isAllowedNoLoad(v, eng, mll, tgt) ==
    IF ~isValidOnTarget(eng, tgt) THEN FALSE
    ELSE IF eng.numBuckets < Len(v) /\ ~eng.packed THEN FALSE
    ELSE IF moreMasksThanLen(eng, mll) THEN FALSE
    ELSE IF Len(v) > 40 /\ tooManySmall(countSmallLits(v, eng, 1, 0), Len(v))
         THEN FALSE
    ELSE TRUE

isAllowed(v, eng, mll, tgt) ==
    IF ~isValidOnTarget(eng, tgt) THEN FALSE
    ELSE IF eng.numBuckets < Len(v) /\ ~eng.packed THEN FALSE
    ELSE IF eng.numBuckets * TEDDY_BUCKET_LOAD < Len(v) THEN FALSE
    ELSE IF moreMasksThanLen(eng, mll) THEN FALSE
    ELSE IF Len(v) > 40 /\ tooManySmall(countSmallLits(v, eng, 1, 0), Len(v))
         THEN FALSE
    ELSE TRUE

-----------------------------------------------------------------------------
(* chooseTeddyEngine *)

\* unpackedBonus with the test inverted
unpackedBonusInverted(eng) == IF eng.packed THEN 100 ELSE 0

\* "We prefer unpacked Teddy models."
unpackedBonus(eng) == IF ~eng.packed THEN 100 ELSE 0

\* loadBonus with its two branches exchanged
loadBonusSwapped(v, eng) ==
    IF Len(v) > 4 * eng.numBuckets THEN 100 ELSE eng.numMasks * 4

\* "If we're heavily loaded, we prefer to have more masks."
loadBonus(v, eng) ==
    IF Len(v) > 4 * eng.numBuckets THEN eng.numMasks * 4 ELSE 100

\* "We want enough masks to avoid becoming flood-prone."
floodBonus(eng, mft) == IF eng.numMasks > mft THEN 50 ELSE 0

\* the score of an allowed engine (u32; the sums stay far below 2^32)
engineScore(v, eng, mft) ==
    unpackedBonus(eng) + loadBonus(v, eng) + floodBonus(eng, mft)
    + (6 \div (Abs(3 - eng.numMasks) + 1))
    + (16 \div eng.numBuckets)

\* improves with the comparison written >= instead of >
improvesOrTies(b, s, bs) == b = 0 \/ s >= bs

\* if (!best || score > best_score)
improves(b, s, bs) == b = 0 \/ s > bs

\* the first part of chooseTeddyEngine, up to the loop
ChooseBegin ==
    /\ pc = "start"
    /\ max_lit_len' = maxLen(vl)
    /\ max_flood_tail' = maxFloodTailLen(vl)
    /\ best' = 0
    /\ best_score' = 0
    /\ engineID' = 0
    /\ pc' = "loop"
    /\ UNCHANGED <<descs, target, vl, allowed, score, chosen, call>>

\* one iteration of the loop over descs
ChooseIter ==
    /\ pc = "loop"
    /\ engineID < Len(descs)
    /\ LET eng == descs[engineID + 1]
           ok == isAllowed(vl, eng, max_lit_len, target)
           sc == engineScore(vl, eng, max_flood_tail)
       IN  /\ allowed' = ok
           /\ score' = IF ok THEN sc ELSE 0
           /\ IF ok /\ improves(best, sc, best_score)
                 THEN best' = engineID + 1 /\ best_score' = sc
                 ELSE UNCHANGED <<best, best_score>>
    /\ engineID' = engineID + 1
    /\ UNCHANGED <<descs, target, vl, pc, max_lit_len, max_flood_tail, chosen,
                   call>>

\* the end of chooseTeddyEngine: nullptr, or a copy of *best
ChooseReturn ==
    /\ pc = "loop"
    /\ engineID >= Len(descs)
    /\ chosen' = IF best = 0 THEN NullPtr ELSE MakeUnique(descs[best])
    /\ pc' = "done"
    /\ UNCHANGED <<descs, target, vl, max_lit_len, max_flood_tail, engineID,
                   best, best_score, allowed, score, call>>

-----------------------------------------------------------------------------
(* getTeddyDescription *)

RECURSIVE findFrom(_, _, _)
\* the loop over descs from position i on
findFrom(ds, engID, i) ==
    IF i > Len(ds) THEN NullPtr
    ELSE IF ds[i].id = engID THEN MakeUnique(ds[i])
    ELSE findFrom(ds, engID, i + 1)

\* getTeddyDescription with the loop starting at the second entry
getTeddyDescriptionSkipFirst(ds, engID) == findFrom(ds, engID, 2)

getTeddyDescription(ds, engID) == findFrom(ds, engID, 1)

-----------------------------------------------------------------------------
(* Public calls made once an engine has been selected. *)

\* eng.needConfirm(vl) on the catalog entry at position i
NeedConfirmCall(i) ==
    /\ pc = "done"
    /\ call' = [name |-> "needConfirm", arg |-> i,
                ret |-> needConfirm(descs[i], vl)]
    /\ UNCHANGED <<descs, target, vl, pc, max_lit_len, max_flood_tail,
                   engineID, best, best_score, allowed, score, chosen>>

\* getTeddyDescription(engID)
GetTeddyDescriptionCall(engID) ==
    /\ pc = "done"
    /\ call' = [name |-> "getTeddyDescription", arg |-> engID,
                ret |-> getTeddyDescription(descs, engID)]
    /\ UNCHANGED <<descs, target, vl, pc, max_lit_len, max_flood_tail,
                   engineID, best, best_score, allowed, score, chosen>>

-----------------------------------------------------------------------------
(* Inputs. *)

\* cpu features: none for the baseline target, AVX2 for the wide one
Baseline == {}
Avx2 == {"AVX2"}
Targets == {Baseline, Avx2}

\* an exclusion mask in use
SomeMask == <<255, 255>>

La == Lit(<<"a">>, << >>)
Lab == Lit(<<"a", "b">>, << >>)
Lbb == Lit(<<"b", "b">>, << >>)
LabMasked == Lit(<<"a", "b">>, SomeMask)
Laaab == Lit(<<"a", "a", "a", "b">>, << >>)
Labbb == Lit(<<"a", "b", "b", "b">>, << >>)

SmallLits == {La, Lab, Lbb, LabMasked}

\* every vector of at most MaxLits literals of SmallLits, in every order
SmallVectors == UNION {[1..n -> SmallLits] : n \in 0..MaxLits}

\* n1 literals of length 1 followed by n2 literals of length 2
Mixed(n1, n2) == Rep(n1, La) \o Rep(n2, Lab)

\* sizes around the thresholds of isAllowed and of the load bonus:
\* 3 and 9 literals, 32/33 (four per bucket of 8), 40/41 (the flood block),
\* 45 with 9 and 10 short ones (20%), 48/49 (six per bucket of 8)
MixedCounts ==
    {<<0, 3>>, <<0, 9>>, <<0, 32>>, <<0, 33>>, <<20, 20>>, <<8, 33>>,
     <<9, 32>>, <<9, 36>>, <<10, 35>>, <<0, 48>>, <<0, 49>>}

LargeVectors ==
    {Mixed(c[1], c[2]) : c \in MixedCounts}
    \cup {Rep(36, Lab) \o Rep(9, La), Rep(35, Lab) \o Rep(10, La)}

LongLitVectors ==
    {<<Laaab>>, <<Labbb>>, <<La, Labbb>>, <<Lbb, Lab, Lbb>>}

Vectors == SmallVectors \cup LargeVectors \cup LongLitVectors

\* the engines catalogs are made of: 8 buckets on the baseline target, the
\* 16-bucket one on AVX2, with 1 to 3 masks, packed and unpacked
Engines ==
    {Engine(1, Baseline, 8, 1, FALSE),
     Engine(2, Baseline, 8, 2, FALSE),
     Engine(3, Baseline, 8, 2, TRUE),
     Engine(4, Avx2, 8, 2, FALSE),
     Engine(5, Baseline, 1, 3, FALSE),
     Engine(6, Avx2, 16, 2, TRUE)}

\* catalogs: at most MaxCatalog different engines, in any order (ids unique)
Catalogs(engines) ==
    {c \in UNION {[1..n -> engines] : n \in 0..MaxCatalog} :
        \A i, j \in 1..Len(c) : c[i] = c[j] => i = j}

InitFrom(engines, vectors) ==
    /\ descs \in Catalogs(engines)
    /\ target \in Targets
    /\ vl \in vectors
    /\ pc = "start"
    /\ max_lit_len = 0
    /\ max_flood_tail = 0
    /\ engineID = 0
    /\ best = 0
    /\ best_score = 0
    /\ allowed = FALSE
    /\ score = 0
    /\ chosen = NullPtr
    /\ call = NoCall

Init == InitFrom(Engines, Vectors)

\* engines with many masks: a packed engine of 1 bucket is heavily loaded by 5
\* literals, and its load bonus numMasks * 4 then grows with its masks
ManyMaskEngines ==
    {Engine(1, Baseline, 1, 34, TRUE),
     Engine(2, Baseline, 1, 33, TRUE),
     Engine(3, Baseline, 17, 1, FALSE),
     Engine(4, Baseline, 8, 2, FALSE),
     Engine(5, Baseline, 17, 9, FALSE),
     Engine(6, Avx2, 1, 35, TRUE)}

\* a literal of 35 bytes ending a^34 b, and one of 10 bytes b
Long35 == Lit(Rep(34, "a") \o <<"b">>, << >>)
RunB10 == Lit(Rep(10, "b"), << >>)

\* 4 to 6 literals, one of them long enough for every engine's masks
LongVectors ==
    {<<Long35>> \o Rep(k, Lab) : k \in 3..5}
    \cup {Rep(k, Lab) \o <<Long35>> : k \in 3..5}
    \cup {<<Long35, RunB10>> \o Rep(k, Lab) : k \in 2..4}
    \cup {<<Lab, RunB10>>, <<Long35>>}

InitManyMasks == InitFrom(ManyMaskEngines, LongVectors)

\* the ids looked up: those of the catalog, and 0, which no engine carries
LookupIDs == {descs[i].id : i \in 1..Len(descs)} \cup {0}

Next ==
    \/ ChooseBegin
    \/ ChooseIter
    \/ ChooseReturn
    \/ \E i \in 1..Len(descs) : NeedConfirmCall(i)
    \/ \E engID \in LookupIDs : GetTeddyDescriptionCall(engID)

Spec == Init /\ [][Next]_vars

\* the same program on catalogs of engines with many masks
SpecManyMasks == InitManyMasks /\ [][Next]_vars

-----------------------------------------------------------------------------
(* The properties, stated from the specification's wording and not from    *)
(* the operators above.                                                    *)

SetMax(S) == CHOOSE x \in S : \A y \in S : y <= x

\* positions of the catalog and of the literal vector
Entries == 1..Len(descs)
LitPos == 1..Len(vl)

\* the length of the longest literal of the set, 0 for the empty set
LongestLit == SetMax({Len(vl[i].s) : i \in LitPos} \cup {0})

\* how many bytes equal to the last byte immediately precede it
PrecedingRepeats(s) ==
    SetMax({k \in 0..(Len(s) - 1) : \A m \in 1..k : s[Len(s) - m] = s[Len(s)]})

\* the length of the trailing run of the last byte, the last byte included
TrailingRun(s) == PrecedingRepeats(s) + 1

\* the longest trailing run over the literal set, 0 for the empty set
LongestTrailingRun == SetMax({TrailingRun(vl[i].s) : i \in LitPos} \cup {0})

\* the number of literals strictly shorter than the engine's mask count
ShortLits(eng) == Cardinality({i \in LitPos : Len(vl[i].s) < eng.numMasks})

\* the five grounds of rejection of the Eligibility Filter
NotOnTarget(eng) == ~(eng.cpu_features \subseteq target)
TooFewBuckets(eng) == eng.numBuckets < Len(vl) /\ ~eng.packed
OverLoaded(eng) == eng.numBuckets * TEDDY_BUCKET_LOAD < Len(vl)
TooManyMasks(eng) == eng.numMasks > LongestLit
FloodProne(eng) == Len(vl) > 40 /\ 5 * ShortLits(eng) > Len(vl)

Rejected(eng) ==
    \/ NotOnTarget(eng)
    \/ TooFewBuckets(eng)
    \/ OverLoaded(eng)
    \/ TooManyMasks(eng)
    \/ FloodProne(eng)

Eligible(i) == ~Rejected(descs[i])

\* the score of the Selection Heuristic
ScoreOf(eng) ==
    (IF eng.packed THEN 0 ELSE 100)
    + (IF Len(vl) > 4 * eng.numBuckets THEN eng.numMasks * 4 ELSE 100)
    + (IF eng.numMasks > LongestTrailingRun THEN 50 ELSE 0)
    + (6 \div (Abs(3 - eng.numMasks) + 1))
    + (16 \div eng.numBuckets)

\* the catalog position the heuristic is to return: eligible, of the highest
\* score, and the lowest such position
IsWinner(i) ==
    /\ Eligible(i)
    /\ \A j \in Entries : Eligible(j) => ScoreOf(descs[j]) <= ScoreOf(descs[i])
    /\ \A j \in Entries :
          Eligible(j) /\ ScoreOf(descs[j]) = ScoreOf(descs[i]) => i <= j

\* the engine examined by the last iteration of the loop
Examined == descs[engineID]
HasExamined == pc \in {"loop", "done"} /\ engineID > 0

(* C1: whenever some descriptor is eligible, chooseEngine returns the eligible
   descriptor of the highest score, and among several of that score the one
   with the lowest catalog index. *)
C1_ReturnsHighestScore ==
    (pc = "done" /\ \E i \in Entries : Eligible(i))
        => \E i \in Entries : IsWinner(i) /\ chosen = <<descs[i]>>

\* two eligible descriptors tie for the highest score and the earlier is returned
C1_Witness ==
    /\ pc = "done"
    /\ \E i, j \in Entries :
          /\ i < j
          /\ IsWinner(i)
          /\ Eligible(j)
          /\ ScoreOf(descs[j]) = ScoreOf(descs[i])
          /\ chosen = <<descs[i]>>

(* C2: chooseEngine returns the absent result exactly when no catalog
   descriptor is eligible; so it is absent when the literal set is larger than
   numBuckets * BUCKET_LOAD_FACTOR for every entry, and a descriptor is
   returned whenever one is eligible. *)
C2_AbsentIffNoneEligible ==
    pc = "done" =>
        /\ (chosen = NullPtr) <=> (\A i \in Entries : ~Eligible(i))
        /\ (\A i \in Entries : OverLoaded(descs[i])) => chosen = NullPtr

\* a catalog of two engines, both on the target, both too small for the set
C2_Witness ==
    /\ pc = "done"
    /\ Len(descs) = 2
    /\ \A i \in Entries : OverLoaded(descs[i]) /\ ~NotOnTarget(descs[i])
    /\ chosen = NullPtr

\* the literal vector in reverse order, and rotated by one
Reversed(v) == [i \in 1..Len(v) |-> v[Len(v) + 1 - i]]
Rotated(v) == IF v = << >> THEN v ELSE Tail(v) \o <<Head(v)>>

\* when confirmation is needed, by the four grounds of the predicate
MustConfirm(eng) ==
    \/ eng.packed
    \/ Len(vl) > eng.numBuckets
    \/ \E i \in LitPos : Len(vl[i].s) > eng.numMasks
    \/ \E i \in LitPos : vl[i].msk # << >>

(* C3: needConfirm is true exactly when the descriptor is packed, or there are
   more literals than buckets, or some literal is longer than numMasks, or
   some literal has a non-empty mask; the order of the literals does not
   change the result. *)
C3_NeedConfirm ==
    call.name = "needConfirm" =>
        /\ call.ret = MustConfirm(descs[call.arg])
        /\ call.ret = needConfirm(descs[call.arg], Reversed(vl))
        /\ call.ret = needConfirm(descs[call.arg], Rotated(vl))

\* no confirmation is needed for two different literals on an unpacked engine
C3_Witness ==
    /\ call.name = "needConfirm"
    /\ call.ret = FALSE
    /\ Len(vl) = 2
    /\ vl[1] # vl[2]

(* C4: isAllowed returns false exactly when the descriptor is not valid on the
   target, or is unpacked with fewer buckets than literals, or numBuckets *
   BUCKET_LOAD_FACTOR is less than the number of literals, or numMasks exceeds
   the longest literal, or there are more than 40 literals and five times the
   number of those shorter than numMasks exceeds their number. *)
C4_IsAllowed ==
    HasExamined => (allowed = ~Rejected(Examined))

\* an engine passes all five checks on more than 40 literals, some of them short
C4_Witness ==
    /\ HasExamined
    /\ allowed = TRUE
    /\ Len(vl) > 40
    /\ ShortLits(Examined) > 0

\* chooseTeddyEngine has computed max_flood_tail
HasFloodTail == pc \in {"loop", "done"}

(* C5, as claimed: the flood tail of a literal is the number of repeats of the
   last byte that immediately precede it and is strictly less than the
   literal's length, maxFloodTail is its maximum over the set, the flood tail
   of "aaab" is 0 and that of "abbb" is 2. *)
C5_AsClaimed ==
    HasFloodTail =>
        /\ \A i \in LitPos :
              /\ floodTail(vl[i].s) = PrecedingRepeats(vl[i].s)
              /\ floodTail(vl[i].s) < Len(vl[i].s)
        /\ max_flood_tail = SetMax({PrecedingRepeats(vl[i].s) : i \in LitPos} \cup {0})
        /\ (vl = <<Laaab>> => max_flood_tail = 0)
        /\ (vl = <<Labbb>> => max_flood_tail = 2)

(* C5, amended: the flood tail of a literal of length L is the length of its
   trailing run of the last byte, the last byte included (one more than the
   number of repeats that precede it), so it lies between 1 and L;
   maxFloodTail is its maximum over the set (0 for no literals); the flood
   tail of "aaab" is 1 and that of "abbb" is 3. *)
C5_FloodTail ==
    HasFloodTail =>
        /\ \A i \in LitPos :
              /\ floodTail(vl[i].s) = TrailingRun(vl[i].s)
              /\ floodTail(vl[i].s) >= 1
              /\ floodTail(vl[i].s) <= Len(vl[i].s)
        /\ max_flood_tail = LongestTrailingRun
        /\ (vl = <<Laaab>> => max_flood_tail = 1)
        /\ (vl = <<Labbb>> => max_flood_tail = 3)

\* the maximum is taken over a set whose first literal has the longer tail
C5_Witness ==
    /\ HasFloodTail
    /\ Len(vl) = 2
    /\ TrailingRun(vl[1].s) > TrailingRun(vl[2].s)
    /\ max_flood_tail = 2

(* C6, as claimed: a descriptor that passes the Eligibility Filter, and so any
   descriptor chooseEngine returns, has numMasks at most the length of every
   literal of the set. *)
C6_AsClaimed ==
    /\ (HasExamined /\ allowed)
          => \A i \in LitPos : Examined.numMasks <= Len(vl[i].s)
    /\ (pc = "done" /\ chosen # NullPtr)
          => \A i \in LitPos : chosen[1].numMasks <= Len(vl[i].s)

(* C6, amended: a descriptor that passes the Eligibility Filter, and so any
   descriptor chooseEngine returns, has numMasks at most the length of the
   longest literal of the set. *)
C6_MasksWithinLongest ==
    /\ (HasExamined /\ allowed) => Examined.numMasks <= LongestLit
    /\ (pc = "done" /\ chosen # NullPtr) => chosen[1].numMasks <= LongestLit

\* the returned descriptor has more masks than one of the literals is long
C6_Witness ==
    /\ pc = "done"
    /\ chosen # NullPtr
    /\ \E i \in LitPos : Len(vl[i].s) < chosen[1].numMasks
    /\ chosen[1].numMasks = LongestLit

\* the first four grounds of rejection do not apply
PassesFirstFour(eng) ==
    ~(NotOnTarget(eng) \/ TooFewBuckets(eng) \/ OverLoaded(eng) \/ TooManyMasks(eng))

(* C7, as claimed: for more than 40 literals, isAllowed rejects a descriptor
   whenever the literals shorter than numMasks are at least 20% of the set,
   exactly 20% included. *)
C7_AsClaimed ==
    (HasExamined /\ Len(vl) > 40 /\ 5 * ShortLits(Examined) >= Len(vl))
        => allowed = FALSE

(* C7, amended: for more than 40 literals, isAllowed rejects a descriptor
   whenever the literals shorter than numMasks are more than 20% of the set;
   when they are exactly 20% of the set the descriptor is not rejected on
   this ground. *)
C7_RejectsAboveFifth ==
    /\ (HasExamined /\ Len(vl) > 40 /\ 5 * ShortLits(Examined) > Len(vl))
          => allowed = FALSE
    /\ (HasExamined /\ Len(vl) > 40 /\ 5 * ShortLits(Examined) = Len(vl)
          /\ PassesFirstFour(Examined))
          => allowed = TRUE

\* one short literal above 20% of 45 literals, and nothing else to reject for
C7_Witness ==
    /\ HasExamined
    /\ Len(vl) = 45
    /\ ShortLits(Examined) = 10
    /\ PassesFirstFour(Examined)
    /\ allowed = FALSE

(* C8: when chooseEngine returns a descriptor d, findEngine(d.id) returns a
   descriptor, and its id is d.id. *)
C8_RoundTrip ==
    (call.name = "getTeddyDescription" /\ chosen # NullPtr
     /\ call.arg = chosen[1].id)
        => (call.ret # NullPtr /\ call.ret[1].id = chosen[1].id)

\* the descriptor chosen and looked up again is the first catalog entry
C8_Witness ==
    /\ call.name = "getTeddyDescription"
    /\ chosen # NullPtr
    /\ Len(descs) = 2
    /\ chosen[1] = descs[1]
    /\ call.arg = chosen[1].id
    /\ call.ret = chosen

\* three unmasked literals of length 2 on the baseline target
Scenario1 ==
    /\ Len(vl) = 3
    /\ \A i \in LitPos : Len(vl[i].s) = 2 /\ vl[i].msk = << >>
    /\ target = Baseline

\* needConfirm has been called on the descriptor chooseEngine returned
ConfirmOfChosen ==
    /\ call.name = "needConfirm"
    /\ chosen # NullPtr
    /\ descs[call.arg] = chosen[1]

(* C9, as claimed: for 3 unmasked literals of length 2 on a baseline target,
   chooseEngine selects an unpacked descriptor, and needConfirm for it is
   false whenever its numMasks is at most 2.  Stated of the states in which a
   descriptor has been selected and needConfirm has been called on it. *)
C9_AsClaimed ==
    (ConfirmOfChosen /\ Scenario1)
        => /\ ~chosen[1].packed
           /\ chosen[1].numMasks <= 2 => call.ret = FALSE

(* C9, amended: for 3 unmasked literals of length 2 on a baseline target,
   chooseEngine selects an unpacked descriptor whenever an unpacked descriptor
   of the catalog is eligible, and needConfirm for that selected descriptor is
   false exactly when its numMasks is 2 (with 1 mask the literals are longer
   than the masks, and confirmation is needed). *)
C9_Scenario1 ==
    /\ (pc = "done" /\ Scenario1
         /\ \E i \in Entries : Eligible(i) /\ ~descs[i].packed)
          => (chosen # NullPtr /\ ~chosen[1].packed)
    /\ (ConfirmOfChosen /\ Scenario1 /\ ~chosen[1].packed)
          => (call.ret = FALSE <=> chosen[1].numMasks = 2)

\* an unpacked engine with 2 masks wins over a packed one, without confirmation
C9_Witness ==
    /\ ConfirmOfChosen
    /\ Scenario1
    /\ \E i \in Entries : Eligible(i) /\ descs[i].packed
    /\ ~chosen[1].packed
    /\ chosen[1].numMasks = 2
    /\ call.ret = FALSE

\* every descriptor of the catalog has at least one bucket and one mask
WellFormedCatalog ==
    \A i \in Entries : descs[i].numBuckets >= 1 /\ descs[i].numMasks >= 1

SomeUnpackedEligible == \E i \in Entries : Eligible(i) /\ ~descs[i].packed

(* C10, as claimed: on a catalog whose descriptors have numBuckets >= 1 and
   numMasks >= 1, if some unpacked descriptor is eligible then the descriptor
   chooseEngine returns is unpacked. *)
C10_AsClaimed ==
    (pc = "done" /\ WellFormedCatalog /\ SomeUnpackedEligible)
        => (chosen # NullPtr /\ ~chosen[1].packed)

(* C10, amended: on a catalog whose descriptors have numBuckets >= 1 and
   numMasks >= 1 and whose packed descriptors have numMasks <= 33, if some
   unpacked descriptor is eligible then the descriptor chooseEngine returns is
   unpacked (an eligible unpacked descriptor scores at least 200, a packed one
   with at most 33 masks at most 198). *)
C10_UnpackedPreferred ==
    (pc = "done" /\ WellFormedCatalog /\ SomeUnpackedEligible
     /\ \A i \in Entries : descs[i].packed => descs[i].numMasks <= 33)
        => (chosen # NullPtr /\ ~chosen[1].packed)

\* a heavily loaded packed engine of 33 masks scores 198 and loses to an
\* unpacked one that scores 200
C10_Witness ==
    /\ pc = "done"
    /\ \E i, j \in Entries :
          /\ Eligible(i) /\ descs[i].packed /\ descs[i].numMasks = 33
          /\ Len(vl) > 4 * descs[i].numBuckets
          /\ ScoreOf(descs[i]) = 198
          /\ Eligible(j) /\ ~descs[j].packed
          /\ ScoreOf(descs[j]) = 200
          /\ chosen = <<descs[j]>>

====
